---- MODULE Spec2Model ----
(***************************************************************************)
(* Model of package httptrace (server side): ServerTrace hook sets, their  *)
(* composition by reflection over the struct's func fields, and the        *)
(* binding of a hook set to a context.Context under serverEventContextKey. *)
(*                                                                         *)
(* Heap objects are modelled by identity:                                  *)
(*   traces[o]    the fields of the o-th *ServerTrace the callers made;    *)
(*   closures[k]  the k-th function reflect.MakeFunc synthesized;          *)
(*   ctxs[c]      the c-th context node (ctxs[1] is context.Background()). *)
(* A func value is an integer: Nil, a caller's callback (> 0, see Cb) or   *)
(* a synthesized function (< 0, -k for closures[k]).                       *)
(***************************************************************************)
EXTENDS Integers, Sequences, FiniteSets, TLC

\* ---------------------------------------------------------------- bounds
\* Number of context nodes, context.Background() included.
MaxCtxs == 4
\* Number of goroutines, and of context nodes, when goroutines interleave.
NumThreads == 2
MaxConcCtxs == 3

VARIABLES
    ctxs,      \* context nodes: [parent, has, trace]
    traces,    \* traces[o][s]: the func value field s of object o holds now
    closures,  \* closures[k] = [tfCopy, ofObj, ofSlot]: what newFunc closed over
    made,      \* made[o]: the fields the caller set when constructing object o
    panic,     \* "none", or the fault that ended the program
    last,      \* the last call: [op, ctx, arg, ret]
    log,       \* the callbacks the pipeline's hook invocation ran, in order, if it just ran
    thr        \* thr[t]: where goroutine t is in a call, and the call's locals

vars == <<ctxs, traces, closures, made, panic, last, log, thr>>

Nil == 0
\* The func fields of ServerTrace the model carries, by field index: GotBadRequest
\* and GotRequest. compose treats every field alike and on its own, so the other
\* three (WroteHeader, WroteBodyChunk, HandlerDone) behave as these two do.
Slots == {1, 2}
\* structType.NumField(), for the fields carried.
NumField == Cardinality(Slots)
Objs == 1..Len(traces)
Ctxs == 1..Len(ctxs)

\* The callback the caller put in field s when constructing object o.
Cb(o, s) == (o - 1) * NumField + s

\* Marks, in a list of executed callbacks, that the goroutine's stack overflowed.
StackOverflow == 0

\* A freshly constructed &ServerTrace{...} with the fields in shape set.
NewTrace(o, shape) == [s \in Slots |-> IF s \in shape THEN Cb(o, s) ELSE Nil]

\* ------------------------------------------------------------ context
\* Value, were it to look at the node itself only and never at its parents.
ValueNoWalk(cs, c) ==
    IF c = 0 THEN Nil
    ELSE IF cs[c].has THEN cs[c].trace
    ELSE Nil

\* ctx.Value(serverEventContextKey{}): the nearest node that carries the key.
RECURSIVE Value(_, _)
Value(cs, c) ==
    IF c = 0 THEN Nil
    ELSE IF cs[c].has THEN cs[c].trace
    ELSE Value(cs, cs[c].parent)

ContextServerTrace(c) == Value(ctxs, c)

\* WithValue, were WithServerTrace to store what ctx resolved to (old) instead
\* of trace.
WithValueOld(cs, ctx, trace) ==
    Append(cs, [parent |-> ctx, has |-> TRUE, trace |-> Value(cs, ctx)])

\* WithValue, were it to set the key on ctx itself before deriving the new node.
WithValueInPlace(cs, ctx, trace) ==
    Append([cs EXCEPT ![ctx] = [parent |-> cs[ctx].parent, has |-> TRUE, trace |-> trace]],
           [parent |-> ctx, has |-> TRUE, trace |-> trace])

\* context.WithValue(ctx, serverEventContextKey{}, trace): a new node.
WithValue(cs, ctx, trace) ==
    Append(cs, [parent |-> ctx, has |-> TRUE, trace |-> trace])

\* ------------------------------------------------------------ compose
\* composeField, were newFunc to call tf (the field, which holds newFunc once it
\* is set) instead of a copy of tf's value.
composeFieldNoCopy(h, t, old, i) ==
    IF h.traces[old][i] = Nil THEN h
    ELSE IF h.traces[t][i] = Nil
    THEN [h EXCEPT !.traces[t][i] = h.traces[old][i]]
    ELSE LET k == Len(h.closures) + 1
         IN  [traces   |-> [h.traces EXCEPT ![t][i] = -k],
              closures |-> Append(h.closures,
                                  [tfCopy |-> -k, ofObj |-> old, ofSlot |-> i])]

\* composeField, without the of.IsNil() test.
composeFieldNoNilCheck(h, t, old, i) ==
    IF h.traces[t][i] = Nil
    THEN [h EXCEPT !.traces[t][i] = h.traces[old][i]]
    ELSE LET k == Len(h.closures) + 1
         IN  [traces   |-> [h.traces EXCEPT ![t][i] = -k],
              closures |-> Append(h.closures,
                                  [tfCopy |-> h.traces[t][i], ofObj |-> old, ofSlot |-> i])]

\* composeField, were a nil tf left nil instead of set to of.
composeFieldNoSet(h, t, old, i) ==
    IF h.traces[old][i] = Nil THEN h
    ELSE IF h.traces[t][i] = Nil THEN h
    ELSE LET k == Len(h.closures) + 1
         IN  [traces   |-> [h.traces EXCEPT ![t][i] = -k],
              closures |-> Append(h.closures,
                                  [tfCopy |-> h.traces[t][i], ofObj |-> old, ofSlot |-> i])]

\* One iteration of compose's loop, on field i. h = [traces, closures].
composeField(h, t, old, i) ==
    IF h.traces[old][i] = Nil THEN h                       \* of.IsNil()
    ELSE IF h.traces[t][i] = Nil                           \* tf.IsNil()
    THEN [h EXCEPT !.traces[t][i] = h.traces[old][i]]      \* tf.Set(of)
    ELSE LET newFunc == [tfCopy |-> h.traces[t][i],        \* a copy of tf's value
                         ofObj  |-> old,                   \* of: old's field itself
                         ofSlot |-> i]
             k == Len(h.closures) + 1
         IN  [traces   |-> [h.traces EXCEPT ![t][i] = -k],
              closures |-> Append(h.closures, newFunc)]

\* for i := 0; i < structType.NumField(); i++ { ... }
RECURSIVE composeFrom(_, _, _, _)
composeFrom(h, t, old, i) ==
    IF i > NumField THEN h
    ELSE composeFrom(composeField(h, t, old, i), t, old, i + 1)

\* (t *ServerTrace).compose(old)
compose(h, t, old) ==
    IF old = Nil THEN h ELSE composeFrom(h, t, old, 1)

\* --------------------------------------------------------- invocation
\* Calling func value f with the heap (tr, cl); fuel is the number of nested
\* synthesized functions the call may still enter. A synthesized function
\* entered with no fuel left has more synthesized functions below it on the
\* stack than exist, so one of them is there twice and, the heap being
\* unchanged during a call, the recursion never ends.
RECURSIVE Call(_, _, _, _)
Call(tr, cl, f, fuel) ==
    IF f > 0 THEN <<f>>
    ELSE IF f = Nil \/ fuel = 0 THEN <<StackOverflow>>
    ELSE LET w == cl[-f]
             a == Call(tr, cl, w.tfCopy, fuel - 1)         \* tfCopy.Call(args)
         IN  IF a[Len(a)] = StackOverflow THEN a
             ELSE a \o Call(tr, cl, tr[w.ofObj][w.ofSlot], fuel - 1)  \* of.Call(args)

Calls(f) == Call(traces, closures, f, Len(closures))

\* Marks, in a list of executed callbacks, that the one before it panicked.
Fault == -1

\* CallBad, were newFunc to recover from a panic of tfCopy's call and go on to
\* call of.
CallBadRecover(tr, cl, f, fuel, bad) ==
    LET RECURSIVE go(_, _)
        go(g, n) ==
            IF g > 0 THEN <<g>>
            ELSE IF g = Nil \/ n = 0 THEN <<StackOverflow>>
            ELSE LET a == go(cl[-g].tfCopy, n - 1)
                 IN  IF a[Len(a)] = StackOverflow THEN a
                     ELSE a \o go(tr[cl[-g].ofObj][cl[-g].ofSlot], n - 1)
        all == go(f, fuel)
    IN  IF \E i \in 1..Len(all) : all[i] = bad THEN all \o <<Fault>> ELSE all

\* Calling func value f when the caller's callback bad panics once called:
\* nothing in newFunc recovers, so the panic unwinds through every synthesized
\* function on the stack to the invoker.
RECURSIVE CallBad(_, _, _, _, _)
CallBad(tr, cl, f, fuel, bad) ==
    IF f > 0 THEN (IF f = bad THEN <<f, Fault>> ELSE <<f>>)
    ELSE IF f = Nil \/ fuel = 0 THEN <<StackOverflow>>
    ELSE LET w == cl[-f]
             a == CallBad(tr, cl, w.tfCopy, fuel - 1, bad)     \* tfCopy.Call(args)
         IN  IF a[Len(a)] \in {StackOverflow, Fault} THEN a
             ELSE a \o CallBad(tr, cl, tr[w.ofObj][w.ofSlot], fuel - 1, bad)  \* of.Call(args)

Overflows(run) == run # <<>> /\ run[Len(run)] = StackOverflow

\* ------------------------------------------------------------ actions
Threads == 1..NumThreads

\* A goroutine that is in no call of the package.
Idle == [pc |-> "idle", ctx |-> 0, trace |-> 0, old |-> 0, i |-> 0, v |-> 0]

Init ==
    /\ ctxs = << [parent |-> 0, has |-> FALSE, trace |-> Nil] >>
    /\ traces = <<>>
    /\ closures = <<>>
    /\ made = <<>>
    /\ panic = "none"
    /\ last = [op |-> "none", ctx |-> 0, arg |-> 0, ret |-> 0]
    /\ log = <<>>
    /\ thr = [t \in Threads |-> Idle]

\* WithServerTrace without the nil test: compose returns at once when ctx
\* resolves to nothing, and a nil *ServerTrace is stored; otherwise reflect
\* panics on the zero Value of the nil pointer's Elem().
WithServerTraceNoCheck(tr, ctx, trace) ==
    LET old == ContextServerTrace(ctx)
    IN  IF trace = Nil /\ old # Nil
        THEN /\ panic' = "reflect"
             /\ last' = [op |-> "bind", ctx |-> ctx, arg |-> trace, ret |-> 0]
             /\ UNCHANGED <<ctxs, traces, closures>>
        ELSE LET h == compose([traces |-> tr, closures |-> closures], trace, old)
             IN  /\ traces' = h.traces
                 /\ closures' = h.closures
                 /\ ctxs' = WithValue(ctxs, ctx, trace)
                 /\ last' = [op |-> "bind", ctx |-> ctx, arg |-> trace, ret |-> Len(ctxs')]
                 /\ UNCHANGED panic

\* WithServerTrace(ctx, trace), called with the hook sets tr on the heap.
WithServerTrace(tr, ctx, trace) ==
    IF trace = Nil
    THEN /\ panic' = "nil trace"
         /\ last' = [op |-> "bind", ctx |-> ctx, arg |-> trace, ret |-> 0]
         /\ UNCHANGED <<ctxs, traces, closures>>
    ELSE LET old == ContextServerTrace(ctx)
             h == compose([traces |-> tr, closures |-> closures], trace, old)
         IN  /\ traces' = h.traces
             /\ closures' = h.closures
             /\ ctxs' = WithValue(ctxs, ctx, trace)
             /\ last' = [op |-> "bind", ctx |-> ctx, arg |-> trace, ret |-> Len(ctxs')]
             /\ UNCHANGED panic

\* A caller binds a hook set it already holds, or nil.
Bind(ctx, trace) ==
    /\ panic = "none"
    /\ trace = Nil \/ Len(ctxs) < MaxCtxs
    /\ WithServerTrace(traces, ctx, trace)
    /\ log' = <<>>
    /\ UNCHANGED made

\* A caller constructs a hook set with the fields in shape set, and binds it.
BindNew(ctx, shape) ==
    /\ panic = "none"
    /\ Len(ctxs) < MaxCtxs
    /\ LET o == Len(traces) + 1
       IN  /\ made' = Append(made, shape)
           /\ WithServerTrace(Append(traces, NewTrace(o, shape)), ctx, o)
    /\ log' = <<>>

\* A caller derives a context that carries no trace of its own.
Derive(ctx) ==
    /\ panic = "none"
    /\ Len(ctxs) < MaxCtxs
    /\ ctxs' = Append(ctxs, [parent |-> ctx, has |-> FALSE, trace |-> Nil])
    /\ last' = [op |-> "derive", ctx |-> ctx, arg |-> 0, ret |-> Len(ctxs')]
    /\ log' = <<>>
    /\ UNCHANGED <<traces, closures, made, panic>>

\* What calling field s of the hook set ctx resolves to runs: nothing when there
\* is no hook set or the field is nil.
Run(ctx, s) ==
    LET t == ContextServerTrace(ctx)
    IN  IF t = Nil \/ traces[t][s] = Nil THEN <<>> ELSE Calls(traces[t][s])

\* The pipeline, at a lifecycle point: look the hook set up and, when it is
\* there and field s is set, call the field.
Invoke(ctx, s) ==
    /\ panic = "none"
    /\ last' = [op |-> "invoke", ctx |-> ctx, arg |-> s, ret |-> ContextServerTrace(ctx)]
    /\ log' = Run(ctx, s)
    /\ panic' = IF Overflows(Run(ctx, s)) THEN "stack overflow" ELSE "none"
    /\ UNCHANGED <<ctxs, traces, closures, made>>

\* The pipeline calls field s of the hook set ctx resolves to, and bad, one of
\* the callers' callbacks that the call reaches, panics.
InvokeFault(ctx, s, bad) ==
    /\ panic = "none"
    /\ \E i \in 1..Len(Run(ctx, s)) : Run(ctx, s)[i] = bad
    /\ LET t == ContextServerTrace(ctx)
           run == CallBad(traces, closures, traces[t][s], Len(closures), bad)
       IN  /\ last' = [op |-> "invokeFault", ctx |-> ctx, arg |-> s, ret |-> t, bad |-> bad]
           /\ log' = run
           /\ panic' = IF run[Len(run)] = Fault THEN "callback fault"
                       ELSE IF Overflows(run) THEN "stack overflow"
                       ELSE "none"
    /\ UNCHANGED <<ctxs, traces, closures, made>>

\* One goroutine, each call run to its end before the next.
Next ==
    \/ \E ctx \in Ctxs, shape \in SUBSET Slots : BindNew(ctx, shape) /\ UNCHANGED thr
    \/ \E ctx \in Ctxs, trace \in Objs \cup {Nil} : Bind(ctx, trace) /\ UNCHANGED thr
    \/ \E ctx \in Ctxs : Derive(ctx) /\ UNCHANGED thr
    \/ \E ctx \in Ctxs, s \in Slots : Invoke(ctx, s) /\ UNCHANGED thr
    \/ \E ctx \in Ctxs, s \in Slots, o \in Objs :
          InvokeFault(ctx, s, Cb(o, s)) /\ UNCHANGED thr

Spec == Init /\ [][Next]_vars

\* ------------------------------------------- goroutines, interleaved
\* The same calls made by NumThreads goroutines with no synchronization, a
\* call being a sequence of steps: compose reads and writes one field at a
\* time, the pipeline looks the hook set up, tests a field and calls it.

\* compose's loop goes on to field i, or is done.
Advance(t, i) ==
    IF i <= NumField THEN [thr[t] EXCEPT !.pc = "read", !.i = i]
    ELSE [thr[t] EXCEPT !.pc = "store", !.i = 0]

\* WithServerTrace up to compose's loop: the nil test, old := ContextServerTrace(ctx).
Enter(t, ctx, trace) ==
    IF trace = Nil
    THEN /\ panic' = "nil trace"
         /\ UNCHANGED thr
    ELSE LET old == ContextServerTrace(ctx)
             loc == [pc |-> "store", ctx |-> ctx, trace |-> trace, old |-> old,
                     i |-> 0, v |-> 0]
         IN  /\ thr' = [thr EXCEPT ![t] = IF old = Nil THEN loc
                                          ELSE [loc EXCEPT !.pc = "read", !.i = 1]]
             /\ UNCHANGED panic

BeginBind(t, ctx, trace) ==
    /\ panic = "none" /\ thr[t].pc = "idle"
    /\ trace = Nil \/ Len(ctxs) < MaxConcCtxs
    /\ Enter(t, ctx, trace)
    /\ UNCHANGED <<ctxs, traces, closures, made, last, log>>

BeginBindNew(t, ctx, shape) ==
    /\ panic = "none" /\ thr[t].pc = "idle"
    /\ Len(ctxs) < MaxConcCtxs
    /\ Len(traces) < MaxConcCtxs
    /\ traces' = Append(traces, NewTrace(Len(traces) + 1, shape))
    /\ made' = Append(made, shape)
    /\ Enter(t, ctx, Len(traces) + 1)
    /\ UNCHANGED <<ctxs, closures, last, log>>

\* of.IsNil(), tf.IsNil() and the copy of tf, for field i.
ReadField(t) ==
    /\ panic = "none" /\ thr[t].pc = "read"
    /\ LET l == thr[t]
       IN  thr' = [thr EXCEPT ![t] =
                      IF traces[l.old][l.i] = Nil THEN Advance(t, l.i + 1)
                      ELSE [l EXCEPT !.pc = "write", !.v = traces[l.trace][l.i]]]
    /\ UNCHANGED <<ctxs, traces, closures, made, panic, last, log>>

\* tf.Set(of), or tv.Field(i).Set(newFunc), for field i.
WriteField(t) ==
    /\ panic = "none" /\ thr[t].pc = "write"
    /\ LET l == thr[t]
           k == Len(closures) + 1
       IN  /\ IF l.v = Nil
              THEN /\ traces' = [traces EXCEPT ![l.trace][l.i] = traces[l.old][l.i]]
                   /\ UNCHANGED closures
              ELSE /\ traces' = [traces EXCEPT ![l.trace][l.i] = -k]
                   /\ closures' = Append(closures,
                                         [tfCopy |-> l.v, ofObj |-> l.old, ofSlot |-> l.i])
           /\ thr' = [thr EXCEPT ![t] = Advance(t, l.i + 1)]
    /\ UNCHANGED <<ctxs, made, panic, last, log>>

\* return context.WithValue(ctx, serverEventContextKey{}, trace)
Store(t) ==
    /\ panic = "none" /\ thr[t].pc = "store"
    /\ ctxs' = WithValue(ctxs, thr[t].ctx, thr[t].trace)
    /\ thr' = [thr EXCEPT ![t] = Idle]
    /\ UNCHANGED <<traces, closures, made, panic, last, log>>

\* The pipeline: trace := ContextServerTrace(ctx).
Lookup(t, ctx) ==
    /\ panic = "none" /\ thr[t].pc = "idle"
    /\ thr' = [thr EXCEPT ![t] = [Idle EXCEPT !.pc = "looked", !.ctx = ctx,
                                              !.trace = ContextServerTrace(ctx)]]
    /\ UNCHANGED <<ctxs, traces, closures, made, panic, last, log>>

\* The pipeline: if trace != nil && trace.Field != nil.
TestField(t, s) ==
    /\ panic = "none" /\ thr[t].pc = "looked"
    /\ thr' = [thr EXCEPT ![t] =
                  IF thr[t].trace = Nil \/ traces[thr[t].trace][s] = Nil THEN Idle
                  ELSE [thr[t] EXCEPT !.pc = "tested", !.i = s,
                                      !.v = traces[thr[t].trace][s]]]
    /\ UNCHANGED <<ctxs, traces, closures, made, panic, last, log>>

\* The pipeline: trace.Field(info), the field read again for the call.
CallField(t) ==
    /\ panic = "none" /\ thr[t].pc = "tested"
    /\ panic' = IF Overflows(Calls(traces[thr[t].trace][thr[t].i]))
                THEN "stack overflow" ELSE "none"
    /\ thr' = [thr EXCEPT ![t] = Idle]
    /\ UNCHANGED <<ctxs, traces, closures, made, last, log>>

NextConc ==
    \/ \E t \in Threads, ctx \in Ctxs, trace \in Objs \cup {Nil} : BeginBind(t, ctx, trace)
    \/ \E t \in Threads, ctx \in Ctxs, shape \in SUBSET Slots : BeginBindNew(t, ctx, shape)
    \/ \E t \in Threads : ReadField(t)
    \/ \E t \in Threads : WriteField(t)
    \/ \E t \in Threads : Store(t)
    \/ \E t \in Threads, ctx \in Ctxs : Lookup(t, ctx)
    \/ \E t \in Threads, s \in Slots : TestField(t, s)
    \/ \E t \in Threads : CallField(t)

SpecConc == Init /\ [][NextConc]_vars

\* ------------------------------------------------- vocabulary of the claims
\* The hook sets bound along ctx's ancestry chain, most recently bound first.
RECURSIVE Chain(_)
Chain(c) ==
    IF c = 0 THEN <<>>
    ELSE IF ctxs[c].has THEN <<ctxs[c].trace>> \o Chain(ctxs[c].parent)
    ELSE Chain(ctxs[c].parent)

\* The context nodes of ctx's ancestry chain that carry a hook set.
RECURSIVE BoundNodes(_)
BoundNodes(c) ==
    IF c = 0 THEN {}
    ELSE (IF ctxs[c].has THEN {c} ELSE {}) \cup BoundNodes(ctxs[c].parent)

Range(q) == {q[i] : i \in 1..Len(q)}

\* How many times object o was passed to a bind that returned a context.
TimesBound(o) == Cardinality({c \in Ctxs : ctxs[c].has /\ ctxs[c].trace = o})

\* The hook set whose constructor put callback cb in one of its fields.
Owner(cb) == ((cb - 1) \div NumField) + 1

\* The callbacks that the hook sets bound along ctx's chain set in field s,
\* most recently bound first.
RECURSIVE Pick(_, _)
Pick(ch, s) ==
    IF ch = <<>> THEN <<>>
    ELSE (IF s \in made[Head(ch)] THEN <<Cb(Head(ch), s)>> ELSE <<>>) \o Pick(Tail(ch), s)

Expected(c, s) == Pick(Chain(c), s)

\* ctx's chain binds n >= 2 hook sets, each passed to bind this once only and
\* each constructed with field s set.
FreshChain(c, s) ==
    /\ Len(Chain(c)) >= 2
    /\ \A i \in 1..Len(Chain(c)) :
          TimesBound(Chain(c)[i]) = 1 /\ s \in made[Chain(c)[i]]

C2_OrderedComposition ==
    \A c \in Ctxs, s \in Slots :
        LET t == ContextServerTrace(c)
        IN  (t # Nil /\ traces[t][s] # Nil) => Run(c, s) = Expected(c, s)

\* ------------------------------------------------------------------ C3
\* C3: calling any non-nil field of any hook set a context resolves to ends:
\* no synthesized function reaches itself through the calls it makes.
C3_NoSelfCapture ==
    \A c \in Ctxs, s \in Slots : ~Overflows(Run(c, s))

\* ------------------------------------------------------------------ C5
\* C5: for two contexts whose chains share no context carrying a hook set,
\* calling a field of the hook set one resolves to never runs a callback of a
\* hook set bound only along the other's chain.
C5_NoCrossTalk ==
    \A c, d \in Ctxs :
        BoundNodes(c) \cap BoundNodes(d) = {} =>
            \A s \in Slots : \A i \in 1..Len(Run(c, s)) :
                Run(c, s)[i] # StackOverflow =>
                    Owner(Run(c, s)[i]) \notin Range(Chain(d)) \ Range(Chain(c))

\* ------------------------------------------------ bind steps, for the claims
\* This step is a call of WithServerTrace(last'.ctx, last'.arg).
BindCall == last'.op = "bind" /\ vars' # vars

\* The fields of hook set o as the bind of this step received them.
Pre(o) == IF o \in Objs THEN traces[o] ELSE NewTrace(o, made'[o])

\* What calling func value f runs after this step.
CallsAfter(f) == Call(traces', closures', f, Len(closures'))

C6_IdentityOnFirstBind ==
    [][(BindCall /\ last'.arg # Nil /\ ContextServerTrace(last'.ctx) = Nil) =>
        LET H == last'.arg
        IN  /\ Value(ctxs', last'.ret) = H
            /\ traces'[H] = Pre(H)
            /\ \A s \in Slots :
                  /\ Pre(H)[s] = Nil => traces'[H][s] = Nil
                  /\ Pre(H)[s] = Cb(H, s) => CallsAfter(traces'[H][s]) = <<Cb(H, s)>>
       ]_vars

\* A hook set with one field set and one nil was bound first on its chain, and
\* the pipeline then called the set field through the returned context.
C6_Witness ==
    /\ last.op = "invoke"
    /\ Len(Chain(last.ctx)) = 1
    /\ last.ret = Chain(last.ctx)[1]
    /\ TimesBound(last.ret) = 1
    /\ log = <<Cb(last.ret, last.arg)>>
    /\ \E s \in Slots : traces[last.ret][s] = Nil

\* ------------------------------------------------------------------ C7
\* C7: bind(ctx, H) returns a new context that resolves to H, and leaves every
\* context there was, ctx included, resolving to the hook set object it
\* resolved to before.
C7_NewContextShadows ==
    [][(BindCall /\ last'.arg # Nil) =>
        /\ last'.ret \notin Ctxs
        /\ last'.ret \in 1..Len(ctxs')
        /\ ctxs'[last'.ret].parent = last'.ctx
        /\ Value(ctxs', last'.ret) = last'.arg
        /\ \A c \in Ctxs : ctxs'[c] = ctxs[c] /\ Value(ctxs', c) = Value(ctxs, c)
       ]_vars

\* The last call bound H on a context that resolves to another hook set: the
\* returned context resolves to H, the parent still to the other.
C7_Witness ==
    /\ last.op = "bind" /\ last.arg # Nil
    /\ ContextServerTrace(last.ctx) \notin {Nil, last.arg}
    /\ ContextServerTrace(last.ret) = last.arg

\* ------------------------------------------------------------------ C8
\* C8: bind(ctx, nil) panics: it returns no context, composes nothing and
\* leaves every context and hook set as it was; nothing runs after the panic.
C8_NilTracePanics ==
    [][/\ panic # "nil trace"
       /\ (BindCall /\ last'.arg = Nil) =>
             /\ panic' = "nil trace"
             /\ last'.ret = 0
             /\ UNCHANGED <<ctxs, traces, closures, made>>
      ]_vars

\* nil was bound on a context that resolves to a hook set.
C8_Witness ==
    /\ panic = "nil trace"
    /\ last.op = "bind" /\ last.arg = Nil
    /\ ContextServerTrace(last.ctx) # Nil

\* ------------------------------------------------------------------ C9
\* C9: a context resolves to nothing exactly when no hook set was bound along
\* its chain, otherwise to the hook set object bound last along it (all of
\* whose fields may be nil); the pipeline's lookup returns just that and
\* changes no context and no hook set.
C9_AbsentIffNeverBound ==
    /\ [](\A c \in Ctxs :
            /\ ContextServerTrace(c) = Nil <=> Chain(c) = <<>>
            /\ ContextServerTrace(c) # Nil =>
                  ContextServerTrace(c) \in Objs /\ ContextServerTrace(c) = Chain(c)[1])
    /\ [][(last'.op = "invoke" /\ vars' # vars) =>
            /\ last'.ret = ContextServerTrace(last'.ctx)
            /\ UNCHANGED <<ctxs, traces, closures, made>>]_vars

\* The pipeline looked up a context derived, without a hook set of its own,
\* from one on which a hook set with every field nil was bound, and got that
\* hook set, while context.Background() resolves to nothing.
C9_Witness ==
    /\ last.op = "invoke"
    /\ ~ctxs[last.ctx].has
    /\ last.ret # Nil
    /\ \A s \in Slots : traces[last.ret][s] = Nil
    /\ ContextServerTrace(1) = Nil

\* ----------------------------------------------------------------- C10
\* C10: a bind of a hook set N whose fields are all nil on a context that
\* resolves to E returns a context whose hook set behaves as E: each field is
\* nil exactly when E's is, and otherwise runs what E's field runs.
C10_Passthrough ==
    [][(/\ BindCall /\ last'.arg # Nil
        /\ ContextServerTrace(last'.ctx) # Nil
        /\ \A s \in Slots : Pre(last'.arg)[s] = Nil) =>
        LET N == Value(ctxs', last'.ret)
            E == ContextServerTrace(last'.ctx)
        IN  /\ N = last'.arg
            /\ traces'[E] = traces[E]
            /\ \A s \in Slots :
                  /\ traces'[N][s] = Nil <=> traces[E][s] = Nil
                  /\ traces[E][s] # Nil =>
                        /\ CallsAfter(traces'[N][s]) = Calls(traces[E][s])
                        /\ CallsAfter(traces'[N][s]) = CallsAfter(traces'[E][s])
       ]_vars

\* The last call bound a new hook set, constructed with no field set, on a
\* context resolving to a hook set E that composes two callbacks in one field
\* and has a nil field; the bound hook set's fields now equal E's.
C10_Witness ==
    /\ last.op = "bind" /\ last.arg # Nil
    /\ made[last.arg] = {} /\ TimesBound(last.arg) = 1
    /\ ContextServerTrace(last.ctx) \notin {Nil, last.arg}
    /\ traces[last.arg] = traces[ContextServerTrace(last.ctx)]
    /\ \E s, s2 \in Slots :
          /\ Len(Calls(traces[last.arg][s])) = 2
          /\ traces[last.arg][s2] = Nil

\* ----------------------------------------------------------------- C12
\* C12: a bind on a context that resolves to a hook set old composes each field
\* of the hook set H it is given by the reference rule, each field on its own:
\* old's field nil, H's field stays as it was; old's set and H's nil, H's field
\* becomes old's callback; both set, H's field becomes a new function that runs
\* what H's field ran and then what old's field ran when they were composed.
\* No field of old is written when old is another object than H.
C12_ReferenceRule ==
    [][(BindCall /\ last'.arg # Nil /\ ContextServerTrace(last'.ctx) # Nil) =>
        LET H == last'.arg
            old == ContextServerTrace(last'.ctx)
        IN  /\ old # H => traces'[old] = traces[old]
            /\ \A s \in Slots :
                  /\ traces[old][s] = Nil => traces'[H][s] = Pre(H)[s]
                  /\ (traces[old][s] # Nil /\ Pre(H)[s] = Nil)
                        => traces'[H][s] = traces[old][s]
                  /\ (traces[old][s] # Nil /\ Pre(H)[s] # Nil)
                        => /\ traces'[H][s] < -Len(closures)
                           /\ CallsAfter(traces'[H][s]) =
                                 Calls(Pre(H)[s]) \o Calls(traces[old][s])
       ]_vars

\* ----------------------------------------------------------------- C13
\* What calling field s of the hook set ctx resolves to runs after this step.
RunAfter(c, s) ==
    LET t == Value(ctxs', c)
    IN  IF t = Nil \/ traces'[t][s] = Nil THEN <<>> ELSE CallsAfter(traces'[t][s])

\* C13: what each field of the hook set of a context produced by bind runs is
\* fixed when the context is made: no later step changes it.
C13_FixedWhenBound ==
    [][\A c \in Ctxs : ctxs[c].has => \A s \in Slots : RunAfter(c, s) = Run(c, s)]_vars

\* ----------------------------------------------------------------- C14
\* C14: when a callback panics during the call of a composed field, the panic
\* reaches the invoker as it is: every callback that comes before it in the
\* field's order has run (each newer one returned, so the next was called), and
\* none that comes after it (the older ones) runs.
C14_FaultPropagates ==
    last.op = "invokeFault" =>
        LET full == Run(last.ctx, last.arg)
            first == CHOOSE i \in 1..Len(full) :
                        full[i] = last.bad /\ \A j \in 1..(i - 1) : full[j] # last.bad
        IN  /\ panic = "callback fault"
            /\ log = SubSeq(full, 1, first) \o <<Fault>>

\* Three hook sets were bound in a chain on one field, and the second's callback
\* panicked: the newest ran and returned, the second ran, the oldest did not.
C14_Witness ==
    /\ last.op = "invokeFault"
    /\ FreshChain(last.ctx, last.arg)
    /\ Len(Chain(last.ctx)) = 3
    /\ last.bad = Cb(Chain(last.ctx)[2], last.arg)
    /\ log = <<Cb(Chain(last.ctx)[1], last.arg), last.bad, Fault>>
    /\ panic = "callback fault"

\* ----------------------------------------------------------------- C11
\* C11: with goroutines interleaved, no step of one goroutine's bind writes a
\* field of a hook set that a context held by another goroutine (one it is
\* looking up, or binding on) resolves to; so no field of the hook set a
\* reader resolved changes between two of the reader's steps.
C11_NoWriteToResolvedHookSet ==
    [][\A t \in Threads : thr'[t] # thr[t] =>
          \A u \in Threads \ {t} : thr[u].pc # "idle" =>
              /\ ContextServerTrace(thr[u].ctx) # Nil =>
                    traces'[ContextServerTrace(thr[u].ctx)]
                        = traces[ContextServerTrace(thr[u].ctx)]
              /\ (thr[u].pc \in {"looked", "tested"} /\ thr[u].trace # Nil) =>
                    traces'[thr[u].trace] = traces[thr[u].trace]
      ]_vars

====
